---- MODULE Spec2Model ----
(***************************************************************************)
(* Build identity (src-tauri/build.rs, src-tauri/src/main.rs) and the      *)
(* native menu dispatcher (src-tauri/src/main.rs) of kg3dnav.              *)
(*                                                                         *)
(* A u64 is a sequence of four 16-bit limbs, most significant first, so    *)
(* that the full 64-bit range and its overflow boundary are exact.         *)
(* A String is a sequence of ASCII codes.                                  *)
(***************************************************************************)
EXTENDS Integers, Sequences, FiniteSets, TLC

VARIABLES env, prevBuild, proc, info, menu, activations, emitted, arg, ret

vars == <<env, prevBuild, proc, info, menu, activations, emitted, arg, ret>>

\* Option<T>: None is the empty sequence, Some(x) the one-element sequence
None == <<>>
Some(x) == <<x>>
IsSome(o) == Len(o) = 1
Unwrap(o) == o[1]

----------------------------------------------------------------------------
(* Bounds of the explored input space.                                     *)

\* builds are taken at each anchor minute and up to MaxDelta minutes later
MaxDelta == 1
\* longest arbitrary string handed to the runtime encoder
MaxLen == 3
\* longest sequence of menu activations followed in one process
MaxEvents == 2

----------------------------------------------------------------------------
(* u64 arithmetic on four 16-bit limbs.                                    *)

LimbCount == 4
LimbBase == 65536

Zero64 == <<0, 0, 0, 0>>
U64Max == <<LimbBase - 1, LimbBase - 1, LimbBase - 1, LimbBase - 1>>

IsZero(v) == \A i \in 1..LimbCount : v[i] = 0

\* v / d and v % d for a divisor d below 2^15 (long division, left to right)
DivRem(v, d) ==
  LET c1 == v[1]
      c2 == (c1 % d) * LimbBase + v[2]
      c3 == (c2 % d) * LimbBase + v[3]
      c4 == (c3 % d) * LimbBase + v[4]
  IN [q |-> <<c1 \div d, c2 \div d, c3 \div d, c4 \div d>>, r |-> c4 % d]

\* v * k + a for a factor k below 2^15, with the carry out of bit 63
\* (non-zero exactly on overflow)
MulAdd(v, k, a) ==
  LET t4 == v[4] * k + a
      t3 == v[3] * k + (t4 \div LimbBase)
      t2 == v[2] * k + (t3 \div LimbBase)
      t1 == v[1] * k + (t2 \div LimbBase)
  IN [v |-> <<t1 % LimbBase, t2 % LimbBase, t3 % LimbBase, t4 % LimbBase>>,
      carry |-> t1 \div LimbBase]

FromNat(n) == MulAdd(Zero64, 1, n).v

\* first index where u and v differ, 0 when they are equal
FirstDiff(u, v) ==
  IF u = v THEN 0
  ELSE CHOOSE i \in 1..Len(u) :
         /\ u[i] # v[i]
         /\ \A j \in 1..(i - 1) : u[j] = v[j]

\* u <= v for two sequences of digits of the same length
SeqLeq(u, v) ==
  LET i == FirstDiff(u, v) IN i = 0 \/ u[i] < v[i]

Reverse(s) == [i \in 1..Len(s) |-> s[Len(s) + 1 - i]]

----------------------------------------------------------------------------
(* build.rs: format_build_number                                           *)

\* match rem { 0..=9 => b'0' + rem, _ => b'A' + (rem - 10) }
DigitChar(rem) == IF rem \in 0..9 THEN 48 + rem ELSE 65 + (rem - 10)

\* while value > 0 { digits.push(ch); value /= 36 }: the pushed digits
RECURSIVE PushDigits(_)
PushDigits(value) ==
  IF IsZero(value) THEN <<>>
  ELSE LET d == DivRem(value, 36)
       IN <<DigitChar(d.r)>> \o PushDigits(d.q)

\* faulty variant: keeps the first five characters instead of the last five
TailOf_head(candidate) ==
  IF Len(candidate) > 5 THEN SubSeq(candidate, 1, 5) ELSE candidate

\* candidate[candidate.len() - 5..] when longer than 5, else candidate
TailOf(candidate) ==
  IF Len(candidate) > 5
    THEN SubSeq(candidate, Len(candidate) - 5 + 1, Len(candidate))
    ELSE candidate

\* faulty variant: format!("{:0<5}", tail), the zeros on the right
PadLeft_right(tail) ==
  IF Len(tail) >= 5 THEN tail
  ELSE tail \o [i \in 1..(5 - Len(tail)) |-> 48]

\* format!("{:0>5}", tail)
PadLeft(tail) ==
  IF Len(tail) >= 5 THEN tail
  ELSE [i \in 1..(5 - Len(tail)) |-> 48] \o tail

\* faulty variant: digits.reverse() left out
format_build_number_norev(minutes) ==
  LET digits == IF IsZero(minutes) THEN <<48>>
                ELSE PushDigits(minutes)
  IN PadLeft(TailOf(digits))

format_build_number(minutes) ==
  LET digits == IF IsZero(minutes) THEN <<48>>
                ELSE Reverse(PushDigits(minutes))
  IN PadLeft(TailOf(digits))

----------------------------------------------------------------------------
(* build.rs: main                                                          *)

\* faulty variant: wrapping_mul, the product modulo 2^64
saturating_mul_wrapping(v, k) == MulAdd(v, k, 0).v

\* u64::saturating_mul: the product, or u64::MAX when it does not fit
saturating_mul(v, k) ==
  LET p == MulAdd(v, k, 0) IN IF p.carry # 0 THEN U64Max ELSE p.v

\* the four decimal digits of n < 10^4, most significant first
Dec4(n) ==
  <<48 + (n \div 1000), 48 + ((n \div 100) % 10),
    48 + ((n \div 10) % 10), 48 + (n % 10)>>

\* println!("{}", v) of a u64: its decimal representation, that is its 20
\* decimal digits (taken four at a time) without the leading zeros
Display(v) ==
  LET a == DivRem(v, 10000)
      b == DivRem(a.q, 10000)
      c == DivRem(b.q, 10000)
      d == DivRem(c.q, 10000)
      all == Dec4(d.q[LimbCount]) \o Dec4(d.r) \o Dec4(c.r)
               \o Dec4(b.r) \o Dec4(a.r)
      nonzero == {i \in 1..Len(all) : all[i] # 48}
      first == IF nonzero = {} THEN Len(all)
               ELSE CHOOSE i \in nonzero : \A j \in nonzero : i <= j
  IN SubSeq(all, first, Len(all))

\* GITHUB_SHA, or else GIT_COMMIT, or else "unknown"
ResolveSha(github_sha, git_commit) ==
  IF IsSome(github_sha) THEN Unwrap(github_sha)
  ELSE IF IsSome(git_commit) THEN Unwrap(git_commit)
  ELSE "unknown"

\* faulty variant: BUILD_EPOCH taken from the measured seconds
BuildEnv_measured(now, github_sha, git_commit) ==
  LET epoch_seconds == now
      epoch_minutes == DivRem(epoch_seconds, 60).q
      build_number == format_build_number(epoch_minutes)
      sha == ResolveSha(github_sha, git_commit)
  IN [BUILD_MINUTES |-> Some(Display(epoch_minutes)),
      BUILD_NUMBER  |-> Some(build_number),
      BUILD_EPOCH   |-> Some(Display(epoch_seconds)),
      GIT_SHA       |-> Some(sha)]

\* the four cargo:rustc-env lines printed for a clock reading of now seconds
BuildEnv(now, github_sha, git_commit) ==
  LET epoch_seconds == now
      epoch_minutes == DivRem(epoch_seconds, 60).q
      build_number == format_build_number(epoch_minutes)
      sha == ResolveSha(github_sha, git_commit)
  IN [BUILD_MINUTES |-> Some(Display(epoch_minutes)),
      BUILD_NUMBER  |-> Some(build_number),
      BUILD_EPOCH   |-> Some(Display(saturating_mul(epoch_minutes, 60))),
      GIT_SHA       |-> Some(sha)]

\* the compile-time environment when no build script has run
NoEnv == [BUILD_MINUTES |-> None, BUILD_NUMBER |-> None,
          BUILD_EPOCH |-> None, GIT_SHA |-> None]

----------------------------------------------------------------------------
(* main.rs: build_number_from_minutes                                      *)

ParseErr == [ok |-> FALSE, v |-> Zero64]

\* str::parse::<u64>: an optional '+', then one or more decimal digits
\* whose value fits in 64 bits; no '-' is accepted for an unsigned type.
\* More than 20 significant digits are at least 10^20 and do not fit; up to
\* 20 are accumulated four at a time, and a carry out of bit 63 is the
\* overflow of result * 10 + digit
ParseU64(src) ==
  IF Len(src) = 0 THEN ParseErr
  ELSE IF src = <<43>> \/ src = <<45>> THEN ParseErr
  ELSE
    LET digits == IF src[1] = 43 THEN Tail(src) ELSE src
        n == Len(digits)
        significant == {i \in 1..n : digits[i] # 48}
        count == IF significant = {} THEN 0
                 ELSE n + 1 - (CHOOSE i \in significant :
                                 \A j \in significant : i <= j)
        D(j) == IF j <= n THEN digits[n + 1 - j] - 48 ELSE 0
        Chunk(c) == D(4 * c - 3) + 10 * D(4 * c - 2)
                      + 100 * D(4 * c - 1) + 1000 * D(4 * c)
        a5 == MulAdd(Zero64, 10000, Chunk(5))
        a4 == MulAdd(a5.v, 10000, Chunk(4))
        a3 == MulAdd(a4.v, 10000, Chunk(3))
        a2 == MulAdd(a3.v, 10000, Chunk(2))
        a1 == MulAdd(a2.v, 10000, Chunk(1))
    IN IF \E i \in 1..n : digits[i] \notin 48..57 THEN ParseErr
       ELSE IF count > 20 THEN ParseErr
       ELSE IF a5.carry # 0 \/ a4.carry # 0 \/ a3.carry # 0
                 \/ a2.carry # 0 \/ a1.carry # 0 THEN ParseErr
       ELSE [ok |-> TRUE, v |-> a1.v]

\* match rem { 0..=9 => b'0' + rem, _ => b'A' + (rem - 10) }
RtDigitChar(rem) == IF rem \in 0..9 THEN 48 + rem ELSE 65 + (rem - 10)

RECURSIVE RtPushDigits(_)
RtPushDigits(value) ==
  IF IsZero(value) THEN <<>>
  ELSE LET d == DivRem(value, 36)
       IN <<RtDigitChar(d.r)>> \o RtPushDigits(d.q)

\* faulty variant: keeps the last four characters
RtTailOf_four(candidate) ==
  IF Len(candidate) > 4
    THEN SubSeq(candidate, Len(candidate) - 4 + 1, Len(candidate))
    ELSE candidate

RtTailOf(candidate) ==
  IF Len(candidate) > 5
    THEN SubSeq(candidate, Len(candidate) - 5 + 1, Len(candidate))
    ELSE candidate

\* faulty variant: pads to a width of 6
RtPadLeft_six(tail) ==
  IF Len(tail) >= 6 THEN tail
  ELSE [i \in 1..(6 - Len(tail)) |-> 48] \o tail

RtPadLeft(tail) ==
  IF Len(tail) >= 5 THEN tail
  ELSE [i \in 1..(5 - Len(tail)) |-> 48] \o tail

\* faulty variant: a parse failure yields the input instead of the sentinel
build_number_from_minutes_echo(minutes_str) ==
  LET parsed == ParseU64(minutes_str)
  IN IF parsed.ok
       THEN LET minutes == parsed.v
                digits == IF IsZero(minutes) THEN <<48>>
                          ELSE Reverse(RtPushDigits(minutes))
            IN RtPadLeft(RtTailOf(digits))
       ELSE minutes_str

build_number_from_minutes(minutes_str) ==
  LET parsed == ParseU64(minutes_str)
  IN IF parsed.ok
       THEN LET minutes == parsed.v
                digits == IF IsZero(minutes) THEN <<48>>
                          ELSE Reverse(RtPushDigits(minutes))
            IN RtPadLeft(RtTailOf(digits))
       ELSE <<48, 48, 48, 48, 48>>

----------------------------------------------------------------------------
(* main.rs: get_build_info                                                 *)

\* option_env!(name).unwrap_or(default)
OptionEnvOr(e, name, default) ==
  IF IsSome(e[name]) THEN Unwrap(e[name]) ELSE default

get_build_info(e) ==
  LET epoch_minutes == OptionEnvOr(e, "BUILD_MINUTES", <<48>>)
      build_number == IF IsSome(e.BUILD_NUMBER) THEN Unwrap(e.BUILD_NUMBER)
                      ELSE build_number_from_minutes(epoch_minutes)
      epoch_seconds == OptionEnvOr(e, "BUILD_EPOCH", <<48>>)
      semver == "CARGO_PKG_VERSION"
      git_sha == OptionEnvOr(e, "GIT_SHA", "unknown")
  IN [buildNumber  |-> build_number,
      epochMinutes |-> epoch_minutes,
      epoch        |-> epoch_seconds,
      semver       |-> semver,
      gitSha       |-> git_sha]

----------------------------------------------------------------------------
(* main.rs: main, the menu and its event handler                           *)

\* faulty variant: the last entry is built with a misspelt id
MenuItems_typo ==
  <<"about", "set_layout_concept", "set_layout_sphere", "set_layout_grid",
    "toggle_xray", "reset_camera", "toggle_side_bar">>

\* Menu::with_items(&[...]): the ids of the entries, in order
MenuItems ==
  <<"about", "set_layout_concept", "set_layout_sphere", "set_layout_grid",
    "toggle_xray", "reset_camera", "toggle_sidebar">>

\* app.emit(name, payload); a () payload is None, a &str payload is Some
Emit(name, payload) == <<[name |-> name, payload |-> payload]>>

\* faulty variant: the sphere arm emits the payload of the grid arm
on_menu_event_paste(id) ==
  CASE id = "about"              -> Emit("about", None)
    [] id = "set_layout_concept" -> Emit("set-layout", Some("concept-centric"))
    [] id = "set_layout_sphere"  -> Emit("set-layout", Some("grid"))
    [] id = "set_layout_grid"    -> Emit("set-layout", Some("grid"))
    [] id = "toggle_xray"        -> Emit("toggle-xray", None)
    [] id = "reset_camera"       -> Emit("reset-camera", None)
    [] id = "toggle_sidebar"     -> Emit("toggle-sidebar", None)
    [] OTHER                     -> <<>>

\* the events the on_menu_event closure emits for one activation
on_menu_event(id) ==
  CASE id = "about"              -> Emit("about", None)
    [] id = "set_layout_concept" -> Emit("set-layout", Some("concept-centric"))
    [] id = "set_layout_sphere"  -> Emit("set-layout", Some("sphere"))
    [] id = "set_layout_grid"    -> Emit("set-layout", Some("grid"))
    [] id = "toggle_xray"        -> Emit("toggle-xray", None)
    [] id = "reset_camera"       -> Emit("reset-camera", None)
    [] id = "toggle_sidebar"     -> Emit("toggle-sidebar", None)
    [] OTHER                     -> <<>>

----------------------------------------------------------------------------
(* Inputs.                                                                 *)

Pow36_5 == 36 * 36 * 36 * 36 * 36

\* minutes since the epoch around which builds are taken: the first
\* minutes, a present-day value, and the ends of the first two 36^5 windows
AnchorMinutes == {0, 35, 29000000, Pow36_5 - 1, 2 * Pow36_5 - 1}

ClockMinutes ==
  {MulAdd(FromNat(a), 1, d).v : a \in AnchorMinutes, d \in 0..MaxDelta}

\* SystemTime::now() in whole seconds: the start and the last second of each
\* of these minutes, and the last seconds a u64 can hold
Clocks ==
  {MulAdd(m, 60, s).v : m \in ClockMinutes, s \in {0, 59}}
    \cup {[U64Max EXCEPT ![LimbCount] = LimbBase - 1 - d] : d \in 0..MaxDelta}

\* std::env::var("GITHUB_SHA") and std::env::var("GIT_COMMIT")
GithubShaInputs == {None, Some("0a1b2c3")}
GitCommitInputs == {None, Some("4d5e6f7")}

\* identifiers the host can deliver: the constructed entries and another
ActivationIds ==
  {MenuItems[i] : i \in 1..Len(MenuItems)} \cup {"nonexistent"}

----------------------------------------------------------------------------
(* The system: build script, process start, query, menu activation.        *)

\* the minutes and the number of the build before the current one
NoPrev == [BUILD_MINUTES |-> None, BUILD_NUMBER |-> None]
NoRet == [format |-> None, runtime |-> None, secs |-> None]
NoArg == [kind |-> "none"]

Init ==
  /\ env = NoEnv
  /\ prevBuild = NoPrev
  /\ proc = "stopped"
  /\ info = None
  /\ menu = None
  /\ activations = <<>>
  /\ emitted = <<>>
  /\ arg = NoArg
  /\ ret = NoRet

\* build.rs main: cargo runs the build script and compiles the binary
Build(now, github_sha, git_commit) ==
  /\ proc = "stopped"
  /\ env' = BuildEnv(now, github_sha, git_commit)
  /\ prevBuild' = [BUILD_MINUTES |-> env.BUILD_MINUTES,
                    BUILD_NUMBER |-> env.BUILD_NUMBER]
  /\ UNCHANGED <<proc, info, menu, activations, emitted, arg, ret>>

\* main.rs main: the menu exists on every target but android; the build
\* that the running one replaced is no longer of interest
Start(target) ==
  /\ proc = "stopped"
  /\ proc' = target
  /\ menu' = IF target # "android" THEN Some(MenuItems) ELSE None
  /\ prevBuild' = NoPrev
  /\ UNCHANGED <<env, info, activations, emitted, arg, ret>>

\* the front-end invokes the get_build_info command
Query ==
  /\ proc # "stopped"
  /\ info' = Some(get_build_info(env))
  /\ UNCHANGED <<env, prevBuild, proc, menu, activations, emitted, arg, ret>>

\* the host delivers a menu activation to the on_menu_event closure
MenuEvent(id) ==
  /\ proc # "stopped"
  /\ IsSome(menu)
  /\ Len(activations) < MaxEvents
  /\ activations' = Append(activations, id)
  /\ emitted' = emitted \o on_menu_event(id)
  /\ UNCHANGED <<env, prevBuild, proc, info, menu, arg, ret>>

\* the process ends
Exit ==
  /\ proc # "stopped"
  /\ proc' = "stopped"
  /\ info' = None
  /\ menu' = None
  /\ activations' = <<>>
  /\ emitted' = <<>>
  /\ UNCHANGED <<env, prevBuild, arg, ret>>

Next ==
  \/ \E now \in Clocks, gh \in GithubShaInputs, gc \in GitCommitInputs :
        Build(now, gh, gc)
  \/ \E target \in {"desktop", "android"} : Start(target)
  \/ Query
  \/ \E id \in ActivationIds : MenuEvent(id)
  \/ Exit

Spec == Init /\ [][Next]_vars

----------------------------------------------------------------------------
(* The encoders and the seconds conversion as functions of their input.    *)

\* characters of the strings handed to the runtime encoder: + - 0 1 9 x
Alphabet == {43, 45, 48, 49, 57, 120}

Strings == UNION {[1..n -> Alphabet] : n \in 0..MaxLen}

\* minute counts over the whole u64 range: those of the builds, the
\* overflow boundary of the seconds conversion, and the largest values
U64Inputs ==
  ClockMinutes
    \cup {MulAdd(DivRem(U64Max, 60).q, 1, d).v : d \in 0..MaxDelta}
    \cup {[U64Max EXCEPT ![LimbCount] = LimbBase - 1 - d] : d \in 0..MaxDelta}

\* decimal strings just beyond the u64 range
OverflowStrings ==
  {[Display(U64Max) EXCEPT ![20] = 54], Append(Display(U64Max), 48)}

PureArgs ==
  {[kind |-> "minutes", m |-> m, s |-> Display(m)] : m \in U64Inputs}
    \cup {[kind |-> "str", m |-> Zero64, s |-> s] :
            s \in Strings \cup OverflowStrings}

InitPure ==
  /\ env = NoEnv
  /\ prevBuild = NoPrev
  /\ proc = "stopped"
  /\ info = None
  /\ menu = None
  /\ activations = <<>>
  /\ emitted = <<>>
  /\ arg \in PureArgs
  /\ ret = NoRet

sysvars == <<env, prevBuild, proc, info, menu, activations, emitted>>

\* build.rs: format_build_number(m)
CallFormat ==
  /\ arg.kind = "minutes"
  /\ ret.format = None
  /\ ret' = [ret EXCEPT !.format = Some(format_build_number(arg.m))]
  /\ UNCHANGED <<sysvars, arg>>

\* main.rs: build_number_from_minutes(s)
CallRuntime ==
  /\ arg.kind \in {"minutes", "str"}
  /\ ret.runtime = None
  /\ ret' = [ret EXCEPT !.runtime = Some(build_number_from_minutes(arg.s))]
  /\ UNCHANGED <<sysvars, arg>>

\* build.rs: m.saturating_mul(60)
CallSeconds ==
  /\ arg.kind = "minutes"
  /\ ret.secs = None
  /\ ret' = [ret EXCEPT !.secs = Some(saturating_mul(arg.m, 60))]
  /\ UNCHANGED <<sysvars, arg>>

NextPure == CallFormat \/ CallRuntime \/ CallSeconds

SpecPure == InitPure /\ [][NextPure]_vars

----------------------------------------------------------------------------
(* Vocabulary of the properties.                                           *)

Sentinel == <<48, 48, 48, 48, 48>>

IsBase36Char(c) == c \in (48..57) \cup (65..90)

WellFormed(str) ==
  /\ Len(str) = 5
  /\ \A i \in 1..Len(str) : IsBase36Char(str[i])

\* the value of a base-36 digit: 0-9 are 0..9, A-Z are 10..35
DigitValue(c) == IF c \in 48..57 THEN c - 48 ELSE c - 55

\* the number a string of at most five base-36 digits denotes,
\* most significant digit first
Value36(str) ==
  LET F[i \in 0..Len(str)] ==
        IF i = 0 THEN 0 ELSE F[i - 1] * 36 + DigitValue(str[i])
  IN F[Len(str)]

Below36_5(m) == SeqLeq(m, FromNat(Pow36_5 - 1))

\* m div 36^5 and m mod 36^5, dividing by 36^2, by 36^2 and by 36
Split36_5(m) ==
  LET a == DivRem(m, 36 * 36)
      b == DivRem(a.q, 36 * 36)
      c == DivRem(b.q, 36)
  IN [q |-> c.q, r |-> a.r + (36 * 36) * (b.r + (36 * 36) * c.r)]

Mod36_5(m) == Split36_5(m).r
Window(m) == Split36_5(m).q

\* the largest m whose product with 60 fits in 64 bits
SecondsBoundary == DivRem(U64Max, 60).q

\* an optional '+' followed by one or more decimal digits
LooksNonNegativeInteger(str) ==
  LET body == IF Len(str) > 0 /\ str[1] = 43 THEN Tail(str) ELSE str
  IN /\ Len(body) > 0
     /\ \A i \in 1..Len(body) : body[i] \in 48..57

\* the dispatch table: identifier -> (event name, payload)
DispatchTable ==
  [id \in {"about", "set_layout_concept", "set_layout_sphere",
           "set_layout_grid", "toggle_xray", "reset_camera",
           "toggle_sidebar"} |->
     CASE id = "about"              -> [name |-> "about", payload |-> None]
       [] id = "set_layout_concept" ->
            [name |-> "set-layout", payload |-> Some("concept-centric")]
       [] id = "set_layout_sphere"  ->
            [name |-> "set-layout", payload |-> Some("sphere")]
       [] id = "set_layout_grid"    ->
            [name |-> "set-layout", payload |-> Some("grid")]
       [] id = "toggle_xray"        -> [name |-> "toggle-xray", payload |-> None]
       [] id = "reset_camera"       -> [name |-> "reset-camera", payload |-> None]
       [] id = "toggle_sidebar"     ->
            [name |-> "toggle-sidebar", payload |-> None]]

\* the events a sequence of activations must have produced, in order
RECURSIVE ExpectedEvents(_)
ExpectedEvents(acts) ==
  IF acts = <<>> THEN <<>>
  ELSE (IF Head(acts) \in DOMAIN DispatchTable
          THEN <<DispatchTable[Head(acts)]>> ELSE <<>>)
         \o ExpectedEvents(Tail(acts))

----------------------------------------------------------------------------
(* Properties of the encoders (checked under SpecPure).                    *)

\* C1: for every u64 m, format_build_number(m) and
\* build_number_from_minutes(decimal string of m) are 5 characters long and
\* every character is one of 0-9, A-Z.
C1_EncoderWellFormed ==
  arg.kind = "minutes" =>
    /\ IsSome(ret.format) => WellFormed(Unwrap(ret.format))
    /\ IsSome(ret.runtime) => WellFormed(Unwrap(ret.runtime))

\* both encoders have run on the largest u64
C1_Witness ==
  /\ arg.kind = "minutes"
  /\ arg.m = U64Max
  /\ IsSome(ret.format)
  /\ IsSome(ret.runtime)

\* C2: for m < 36^5, format_build_number(m) is the 5 base-36 digits of m,
\* most significant first, zero-padded on the left: the value read back is
\* m; 0 gives "00000", 35 gives "0000Z", 36 gives "00010".
C2_Base36Padded ==
  (arg.kind = "minutes" /\ IsSome(ret.format) /\ Below36_5(arg.m)) =>
    LET out == Unwrap(ret.format)
    IN /\ WellFormed(out)
       /\ FromNat(Value36(out)) = arg.m
       /\ arg.m = FromNat(0) => out = <<48, 48, 48, 48, 48>>
       /\ arg.m = FromNat(35) => out = <<48, 48, 48, 48, 90>>
       /\ arg.m = FromNat(36) => out = <<48, 48, 48, 49, 48>>

\* 36 has been encoded
C2_Witness ==
  /\ arg.kind = "minutes"
  /\ arg.m = FromNat(36)
  /\ ret.format = Some(<<48, 48, 48, 49, 48>>)

\* C3: for m >= 36^5 both encoders return the last five base-36 digits of
\* m, that is the digits of m mod 36^5: the same string as the encoding of
\* m mod 36^5.
C3_Truncation ==
  (arg.kind = "minutes" /\ ~Below36_5(arg.m)) =>
    LET low == FromNat(Mod36_5(arg.m))
    IN /\ IsSome(ret.format) =>
            /\ WellFormed(Unwrap(ret.format))
            /\ Value36(Unwrap(ret.format)) = Mod36_5(arg.m)
            /\ Unwrap(ret.format) = format_build_number(low)
       /\ IsSome(ret.runtime) =>
            /\ WellFormed(Unwrap(ret.runtime))
            /\ Value36(Unwrap(ret.runtime)) = Mod36_5(arg.m)
            /\ Unwrap(ret.runtime) = build_number_from_minutes(Display(low))

\* a value of more than five base-36 digits, with a non-zero sixth digit and
\* non-zero low digits, has been encoded by both
C3_Witness ==
  /\ arg.kind = "minutes"
  /\ arg.m = SecondsBoundary
  /\ Mod36_5(arg.m) # 0
  /\ IsSome(ret.format)
  /\ IsSome(ret.runtime)

\* C5: a string that is not a non-negative integer (empty, non-numeric,
\* negative) makes build_number_from_minutes return "00000".
C5_ParseFailureSentinel ==
  (arg.kind = "str" /\ ~LooksNonNegativeInteger(arg.s) /\ IsSome(ret.runtime))
    => Unwrap(ret.runtime) = Sentinel

\* the runtime encoder has answered for "-1"
C5_Witness ==
  /\ arg.kind = "str"
  /\ arg.s = <<45, 49>>
  /\ ret.runtime = Some(Sentinel)

\* C6: m.saturating_mul(60) is m * 60 while m * 60 <= 2^64 - 1 and is
\* 2^64 - 1 above that.
C6_SaturatingSeconds ==
  (arg.kind = "minutes" /\ IsSome(ret.secs)) =>
    LET out == Unwrap(ret.secs)
    IN IF SeqLeq(arg.m, SecondsBoundary)
         THEN DivRem(out, 60) = [q |-> arg.m, r |-> 0]
         ELSE out = U64Max

\* the first m past the boundary has been converted and clamped
C6_Witness ==
  /\ arg.kind = "minutes"
  /\ arg.m = MulAdd(SecondsBoundary, 1, 1).v
  /\ ret.secs = Some(U64Max)

----------------------------------------------------------------------------
(* Properties of the system (checked under Spec).                          *)

\* C4: the events emitted since start are, in order, the table's pair for
\* each activation of one of the 7 identifiers and nothing for any other
\* activation.
C4_DispatchTable == emitted = ExpectedEvents(activations)

\* set_layout_sphere then an unknown identifier: one event, set-layout/sphere
C4_Witness ==
  /\ activations = <<"set_layout_sphere", "nonexistent">>
  /\ emitted = <<[name |-> "set-layout", payload |-> Some("sphere")]>>

\* both the current and the previous build exist
TwoBuilds == IsSome(prevBuild.BUILD_MINUTES) /\ IsSome(env.BUILD_MINUTES)
PrevMinutes == ParseU64(Unwrap(prevBuild.BUILD_MINUTES)).v
CurMinutes == ParseU64(Unwrap(env.BUILD_MINUTES)).v

\* of the builds with minutes m1 and m2 and numbers n1 and n2, the one
\* with the smaller minutes has the smaller or equal number; the digits
\* 0-9 precede A-Z in ASCII as they do in base 36
Ordered(m1, n1, m2, n2) ==
  /\ SeqLeq(m1, m2) => SeqLeq(n1, n2)
  /\ SeqLeq(m2, m1) => SeqLeq(n2, n1)

\* C7 as stated: of two builds, the one with the smaller epoch minutes has
\* the smaller or equal build number, in base-36 digit order.
C7_Monotonic_Original ==
  TwoBuilds =>
    \A m1 \in {PrevMinutes}, m2 \in {CurMinutes} :
      Ordered(m1, Unwrap(prevBuild.BUILD_NUMBER),
              m2, Unwrap(env.BUILD_NUMBER))

\* C7 amended: the same, for two builds whose epoch minutes lie in the same
\* window of 36^5 minutes (equal m div 36^5).
C7_MonotonicWithinWindow ==
  TwoBuilds =>
    \A m1 \in {PrevMinutes}, m2 \in {CurMinutes} :
      Window(m1) = Window(m2) =>
        Ordered(m1, Unwrap(prevBuild.BUILD_NUMBER),
                m2, Unwrap(env.BUILD_NUMBER))

\* two builds at the two ends of the second window, numbers in that order
C7_Witness ==
  /\ TwoBuilds
  /\ PrevMinutes = FromNat(Pow36_5)
  /\ CurMinutes = FromNat(2 * Pow36_5 - 1)
  /\ Unwrap(prevBuild.BUILD_NUMBER) # Unwrap(env.BUILD_NUMBER)
  /\ SeqLeq(Unwrap(prevBuild.BUILD_NUMBER), Unwrap(env.BUILD_NUMBER))

\* C8: the constructed menu has exactly the table's 7 identifiers, each
\* once, and the dispatcher emits an event for each of them.
C8_MenuIdentifiers ==
  IsSome(menu) =>
    LET items == Unwrap(menu)
    IN /\ {items[i] : i \in 1..Len(items)} = DOMAIN DispatchTable
       /\ Len(items) = Cardinality(DOMAIN DispatchTable)
       /\ Len(items) = 7
       /\ \A i \in 1..Len(items) : Len(on_menu_event(items[i])) = 1

\* the last constructed entry has been activated and its event emitted
C8_Witness ==
  /\ IsSome(menu)
  /\ activations = <<Unwrap(menu)[Len(Unwrap(menu))]>>
  /\ emitted = <<[name |-> "toggle-sidebar", payload |-> None]>>

\* C9: in every record returned by get_build_info, epoch is a multiple of
\* 60 and equals epochMinutes * 60.
C9_EpochIsMinutesTimes60 ==
  IsSome(info) =>
    LET seconds == ParseU64(Unwrap(info).epoch)
        minutes == ParseU64(Unwrap(info).epochMinutes)
    IN /\ seconds.ok
       /\ minutes.ok
       /\ DivRem(seconds.v, 60) = [q |-> minutes.v, r |-> 0]

\* a record of a build taken at the last second of a minute
C9_Witness ==
  /\ IsSome(info)
  /\ IsSome(env.BUILD_EPOCH)
  /\ Unwrap(info).epochMinutes = Display(FromNat(29000000))
  /\ Unwrap(info).epoch = Display(MulAdd(FromNat(29000000), 60, 0).v)

\* C10: in every record returned by get_build_info, buildNumber is the
\* 5-character base-36 encoding of the record's epochMinutes (its last five
\* digits), and both format_build_number and build_number_from_minutes give
\* that buildNumber for that epochMinutes.
C10_NumberEncodesMinutes ==
  IsSome(info) =>
    LET r == Unwrap(info)
        minutes == ParseU64(r.epochMinutes)
    IN /\ minutes.ok
       /\ WellFormed(r.buildNumber)
       /\ Value36(r.buildNumber) = Mod36_5(minutes.v)
       /\ format_build_number(minutes.v) = r.buildNumber
       /\ build_number_from_minutes(r.epochMinutes) = r.buildNumber

\* a record with a baked number of a build in the second window
C10_Witness ==
  /\ IsSome(info)
  /\ IsSome(env.BUILD_NUMBER)
  /\ Unwrap(info).epochMinutes = Display(FromNat(2 * Pow36_5 - 1))
  /\ Unwrap(info).buildNumber = <<90, 90, 90, 90, 90>>

\* a record computed by the fallback encoder, no build script having run
C10_FallbackReached ==
  /\ IsSome(info)
  /\ env = NoEnv
  /\ Unwrap(info).buildNumber = Sentinel

====
